---- MODULE Spec2Model ----
(***************************************************************************)
(* RandomBiasField (torchio/transforms/augmentation/intensity/             *)
(* random_bias_field.py): the coefficient sampler get_params, the field    *)
(* synthesizer generate_bias_field and the per-sample loop of              *)
(* apply_transform.                                                        *)
(*                                                                         *)
(* Floating-point numbers are modelled as exact rationals extended with    *)
(* the IEEE non-finite values: a number is a record [n, d] with d > 0 for  *)
(* the rational n/d (in lowest terms), and d = 0 for +inf (n = 1), -inf    *)
(* (n = -1) and nan (n = 0).  Rounding of finite results is not modelled;  *)
(* division by zero, inf and nan propagation, and the float32 range of     *)
(* exp are.                                                                *)
(***************************************************************************)
EXTENDS Integers, Sequences, FiniteSets, TLC

VARIABLES
    rng,      \* state of torch's global random generator
    call,     \* arguments of a direct call of one of the static methods
    ret,      \* what that call returned (or raised)
    self,     \* the transform: order, coefficients_range, proportion_to_augment
    sample,   \* the sample dictionary apply_transform works on (mutated in place)
    sample0,  \* the sample as it was passed to apply_transform
    idx,      \* position of apply_transform's loop over sample.items()
    calls,    \* per entry of the sample, the number of get_params calls made for it
    pc        \* "idle" (direct calls), "loop" / "done" (apply_transform)

vars == <<rng, call, ret, self, sample, sample0, idx, calls, pc>>

----------------------------------------------------------------------------
(* Bounds of the model *)

MaxOrder == 3      \* orders -1 .. MaxOrder
MaxDim == 3        \* spatial dimensions 1 .. MaxDim
RngMod == 4        \* number of states of the random generator
ProbSteps == 2     \* probabilities 0, 1/ProbSteps, .., 1
CoefMax == 1       \* integer endpoints of coefficients_range in -CoefMax .. CoefMax
FieldMaxOrder == 2 \* orders -1 .. FieldMaxOrder in direct calls of generate_bias_field
MaxEntries == 2    \* entries of the sample given to apply_transform
TransformMaxOrder == 1 \* orders -1 .. TransformMaxOrder of the transform

----------------------------------------------------------------------------
(* Extended rational arithmetic (Python / numpy float operations) *)

Abs(x) == IF x < 0 THEN -x ELSE x

Sign(x) == IF x > 0 THEN 1 ELSE IF x < 0 THEN -1 ELSE 0

RECURSIVE GCD(_, _)
GCD(a, b) == IF b = 0 THEN a ELSE GCD(b, a % b)

\* n/d with d # 0, in lowest terms with a positive denominator
Q(n, d) ==
    IF d = 1 THEN [n |-> n, d |-> 1]
    ELSE LET g == GCD(Abs(n), Abs(d))
         IN  [n |-> (Sign(d) * n) \div g, d |-> Abs(d) \div g]

Zero == [n |-> 0, d |-> 1]
One == [n |-> 1, d |-> 1]
NaN == [n |-> 0, d |-> 0]
PosInf == [n |-> 1, d |-> 0]
NegInf == [n |-> -1, d |-> 0]

IsFinite(v) == v.d > 0
IsNaN(v) == v.d = 0 /\ v.n = 0

\* a < b for finite a, b
Less(a, b) == a.n * b.d < b.n * a.d

\* a + b
Add(a, b) ==
    IF IsFinite(a) /\ IsFinite(b) THEN Q(a.n * b.d + b.n * a.d, a.d * b.d)
    ELSE IF IsFinite(a) THEN b
    ELSE IF IsFinite(b) THEN a
    ELSE IF a = b THEN a
    ELSE NaN

Neg(a) == [n |-> -a.n, d |-> a.d]

\* a * b  (nan * anything = nan, inf * 0 = nan)
Mul(a, b) ==
    IF IsFinite(a) /\ IsFinite(b) THEN Q(a.n * b.n, a.d * b.d)
    ELSE [n |-> Sign(a.n) * Sign(b.n), d |-> 0]

\* a / b for finite a, b  (x / 0 = +-inf, 0 / 0 = nan; numpy warns, does not raise)
Div(a, b) ==
    IF b.n = 0 THEN [n |-> Sign(a.n), d |-> 0]
    ELSE Q(a.n * b.d, a.d * b.n)

\* a ** e for an integer e >= 0  (anything ** 0 = 1, nan included)
RECURSIVE Pow(_, _)
Pow(a, e) == IF e = 0 THEN One ELSE Mul(a, Pow(a, e - 1))

\* the least integer >= a, for finite a
Ceil(a) == -((-a.n) \div a.d)

----------------------------------------------------------------------------
(* The random source: torch's global generator *)

\* the generator's next state
NextRng(g) == (g + 1) % RngMod

\* torch.rand(1): a value in [0, 1)
Rand(g) == Q(g, RngMod)

\* torch.FloatTensor(1).uniform_(low, high): a value in [low, high)
Uniform(g, range) == Add(range[1], Mul(Add(range[2], Neg(range[1])), Rand(g)))

----------------------------------------------------------------------------
(* get_params *)

\* range(lo, hi) as a sequence
PyRange(lo, hi) == [k \in 1..(IF hi > lo THEN hi - lo ELSE 0) |-> lo + k - 1]

RECURSIVE Concat(_)
Concat(ss) == IF ss = <<>> THEN <<>> ELSE Head(ss) \o Concat(Tail(ss))

\* ParamsZLoop with y_order left out of the bound of the z loop; C1 tells the
\* two apart
ParamsZLoopNoY(order, x_order, y_order) ==
    LET zs == PyRange(0, order + 1 - x_order)
    IN  [k \in DOMAIN zs |-> <<x_order, y_order, zs[k]>>]

\* the exponent triples in the order the nested loops of get_params visit them
ParamsZLoop(order, x_order, y_order) ==
    LET zs == PyRange(0, order + 1 - (x_order + y_order))
    IN  [k \in DOMAIN zs |-> <<x_order, y_order, zs[k]>>]

ParamsYLoop(order, x_order) ==
    LET ys == PyRange(0, order + 1 - x_order)
    IN  Concat([k \in DOMAIN ys |-> ParamsZLoop(order, x_order, ys[k])])

ParamsExponents(order) ==
    LET xs == PyRange(0, order + 1)
    IN  Concat([k \in DOMAIN xs |-> ParamsYLoop(order, xs[k])])

\* DoAugmentation with <= in place of <; C5 tells the two apart
DoAugmentationInclusive(u, probability) == ~Less(probability, u)

\* torch.rand(1) < probability
DoAugmentation(u, probability) == Less(u, probability)

\* get_params(order, coefficients_range, probability) with the generator in
\* state g: the returned pair, the generator's state afterwards, and the raw
\* draws taken from the generator, in order
GetParams(order, coefficients_range, probability, g) ==
    LET triples == ParamsExponents(order)
        n == Len(triples)
        gen(k) == (g + k) % RngMod    \* state after k draws
        random_coefficients ==
            [k \in 1..n |-> Uniform(gen(k - 1), coefficients_range)]
        u == Rand(gen(n))
    IN  [do_augmentation |-> DoAugmentation(u, probability),
         coefficients |-> random_coefficients,
         draws |-> [k \in 1..(n + 1) |-> gen(k - 1)],
         rng |-> NextRng(gen(n))]

----------------------------------------------------------------------------
(* numpy arrays: [shape |-> <<..>>, val |-> [indices -> number]], indices from 0 *)

\* an array holds its values: f as an explicit table of values
Stored(f) == f @@ <<>>

Idx3(shape) == (0..(shape[1] - 1)) \X (0..(shape[2] - 1)) \X (0..(shape[3] - 1))

Idx4(shape) ==
    (0..(shape[1] - 1)) \X (0..(shape[2] - 1)) \X (0..(shape[3] - 1))
        \X (0..(shape[4] - 1))

\* np.zeros(shape)
Zeros(shape) == [shape |-> shape, val |-> Stored([ix \in Idx3(shape) |-> Zero])]

\* np.arange(start, stop): ceil(stop - start) values start, start + 1, ..
Arange(start, stop) ==
    LET len == Ceil(Add(stop, Neg(start)))
    IN  [k \in 1..(IF len > 0 THEN len ELSE 0) |-> Add(start, Q(k - 1, 1))]

\* np.meshgrid(x, y, z) with its default indexing 'xy': three arrays of shape
\* (len(y), len(x), len(z)); the first holds x along axis 1, the second y
\* along axis 0, the third z along axis 2
Meshgrid(ranges) ==
    LET shape == <<Len(ranges[2]), Len(ranges[1]), Len(ranges[3])>>
    IN  <<[shape |-> shape, val |-> Stored([ix \in Idx3(shape) |-> ranges[1][ix[2] + 1]])],
          [shape |-> shape, val |-> Stored([ix \in Idx3(shape) |-> ranges[2][ix[1] + 1]])],
          [shape |-> shape, val |-> Stored([ix \in Idx3(shape) |-> ranges[3][ix[3] + 1]])]>>

\* a.max() of an array of finite numbers
ArrayMax(a) ==
    LET vs == {a.val[ix] : ix \in DOMAIN a.val}
    IN  CHOOSE m \in vs : \A v \in vs : ~Less(m, v)

\* a /= m
DivideBy(a, m) == [shape |-> a.shape, val |-> Stored([ix \in DOMAIN a.val |-> Div(a.val[ix], m)])]

\* random_coefficient * x_mesh ** x_order * y_mesh ** y_order * z_mesh ** z_order
NewMap(c, x_mesh, y_mesh, z_mesh, t) ==
    [shape |-> x_mesh.shape,
     val |-> Stored([ix \in DOMAIN x_mesh.val |->
                Mul(Mul(Mul(c, Pow(x_mesh.val[ix], t[1])),
                        Pow(y_mesh.val[ix], t[2])),
                    Pow(z_mesh.val[ix], t[3]))])]

\* Transpose with the axes left as they are; C10 tells the two apart
TransposeNone(a) == a

\* np.transpose(a, (1, 0, 2))
Transpose(a) ==
    LET shape == <<a.shape[2], a.shape[1], a.shape[3]>>
    IN  [shape |-> shape,
         val |-> Stored([ix \in Idx3(shape) |-> a.val[<<ix[2], ix[1], ix[3]>>]])]

\* whether b can be broadcast to the shape of a
Broadcastable(a, b) == \A k \in 1..3 : b.shape[k] = a.shape[k] \/ b.shape[k] = 1

\* a += b; numpy raises ValueError when b cannot be broadcast to a's shape
AddInPlace(a, b) ==
    [shape |-> a.shape,
     val |-> Stored([ix \in DOMAIN a.val |->
                Add(a.val[ix],
                    b.val[<<IF b.shape[1] = 1 THEN 0 ELSE ix[1],
                            IF b.shape[2] = 1 THEN 0 ELSE ix[2],
                            IF b.shape[3] = 1 THEN 0 ELSE ix[3]>>])])]

----------------------------------------------------------------------------
(* Voxel values of images and fields: [m, x] stands for m * exp(x), with m  *)
(* an extended rational and x a rational; x = 0 unless m is finite and not  *)
(* zero.                                                                    *)

ExpUnderflow == 104   \* exp(v) rounds to 0 in float32 for v <= -104
ExpOverflow == 89     \* exp(v) rounds to inf in float32 for v >= 89

Val(m, x) == [m |-> m, x |-> IF IsFinite(m) /\ m.n # 0 THEN x ELSE Zero]

\* np.exp(v).astype(np.float32)
ExpF32(v) ==
    IF IsNaN(v) THEN Val(NaN, Zero)
    ELSE IF v = NegInf THEN Val(Zero, Zero)
    ELSE IF v = PosInf THEN Val(PosInf, Zero)
    ELSE IF ~Less(Q(0 - ExpUnderflow, 1), v) THEN Val(Zero, Zero)
    ELSE IF ~Less(v, Q(ExpOverflow, 1)) THEN Val(PosInf, Zero)
    ELSE Val(One, v)

\* the product of two voxel values
Times(p, q) == Val(Mul(p.m, q.m), Add(p.x, q.x))

----------------------------------------------------------------------------
(* generate_bias_field *)

\* the exponent triples in the order the nested loops of generate_bias_field
\* visit them
FieldZLoop(order, x_order, y_order) ==
    LET zs == PyRange(0, order + 1 - (x_order + y_order))
    IN  [k \in DOMAIN zs |-> <<x_order, y_order, zs[k]>>]

FieldYLoop(order, x_order) ==
    LET ys == PyRange(0, order + 1 - x_order)
    IN  Concat([k \in DOMAIN ys |-> FieldZLoop(order, x_order, ys[k])])

FieldExponents(order) ==
    LET xs == PyRange(0, order + 1)
    IN  Concat([k \in DOMAIN xs |-> FieldYLoop(order, xs[k])])

\* half_shape = shape / 2
HalfShape(shape) == [k \in 1..3 |-> Q(shape[k], 2)]

\* ranges = [np.arange(-n, n) for n in half_shape]
AxisRanges(shape) ==
    [k \in 1..3 |-> Arange(Neg(HalfShape(shape)[k]), HalfShape(shape)[k])]

\* x_mesh, y_mesh, z_mesh, each divided by its own maximum
NormalizedMeshes(shape) ==
    LET mesh == Meshgrid(AxisRanges(shape))
    IN  <<DivideBy(mesh[1], ArrayMax(mesh[1])),
          DivideBy(mesh[2], ArrayMax(mesh[2])),
          DivideBy(mesh[3], ArrayMax(mesh[3]))>>

\* the loop of generate_bias_field from its k-th iteration on; st holds
\* bias_field, i and the error raised so far
RECURSIVE FieldLoop(_, _, _, _, _, _, _)
FieldLoop(st, k, triples, coefficients, x_mesh, y_mesh, z_mesh) ==
    IF k > Len(triples) \/ st.error # "none" THEN st
    ELSE IF st.i >= Len(coefficients)
    THEN [st EXCEPT !.error = "IndexError"]      \* coefficients[i]
    ELSE LET new_map == NewMap(coefficients[st.i + 1], x_mesh, y_mesh, z_mesh,
                               triples[k])
             t == Transpose(new_map)
         IN  IF ~Broadcastable(st.bias_field, t)
             THEN [st EXCEPT !.error = "ValueError"]
             ELSE FieldLoop([st EXCEPT !.bias_field = AddInPlace(@, t),
                                       !.i = @ + 1],
                            k + 1, triples, coefficients, x_mesh, y_mesh, z_mesh)

\* generate_bias_field(data, order, coefficients): the field returned (with
\* the accumulator it is the exponential of, and the final i), or the error
\* raised
GenerateBiasField(data, order, coefficients) ==
    LET shape == SubSeq(data.shape, 2, 4)
        mesh == NormalizedMeshes(shape)
        st == FieldLoop([bias_field |-> Zeros(shape), i |-> 0, error |-> "none"],
                        1, FieldExponents(order), coefficients,
                        mesh[1], mesh[2], mesh[3])
    IN  IF st.error # "none"
        THEN [state |-> "raised", error |-> st.error]
        ELSE [state |-> "returned",
              bias_field |-> [shape |-> shape,
                              val |-> Stored([ix \in Idx3(shape) |->
                                         ExpF32(st.bias_field.val[ix])])],
              accumulator |-> st.bias_field,
              i |-> st.i]

----------------------------------------------------------------------------
(* Input domains *)

Orders == (0 - 1)..MaxOrder

Probabilities == {Q(k, ProbSteps) : k \in 0..ProbSteps}

\* (low, high) with integer endpoints, low <= high
CoefRanges ==
    LET E == (0 - CoefMax)..CoefMax
    IN  {<<Q(lh[1], 1), Q(lh[2], 1)>> : lh \in {p \in E \X E : p[1] <= p[2]}}

Shapes == (1..MaxDim) \X (1..MaxDim) \X (1..MaxDim)

\* a tensor of the given shape (channels first) with every element v
Full(shape, v) ==
    [shape |-> shape,
     val |-> Stored([ix \in Idx4(shape) |-> v])]

\* coefficient vectors of length len: a + b * i for small integers a, b
CoefVectors(len) ==
    {[i \in 1..len |-> Q(a + b * (i - 1), 1)] : a \in (0 - 1)..1, b \in (0 - 1)..1}

\* the lengths tried with an order: right, one short, one long, and 5
CoefLengths(order) ==
    LET n == Len(FieldExponents(order))
    IN  {k \in {n - 1, n, n + 1, 5} : k >= 0}

NoCall == [fn |-> "none"]
NoRet == [state |-> "none"]
NoSelf == [order |-> 0, coefficients_range |-> <<Zero, Zero>>,
           proportion_to_augment |-> Zero]

----------------------------------------------------------------------------
(* Direct calls of the static method get_params *)

InitParams ==
    /\ rng \in 0..(RngMod - 1)
    /\ call \in {[fn |-> "get_params", order |-> o, coefficients_range |-> r,
                  probability |-> p] :
                 o \in Orders, r \in CoefRanges, p \in Probabilities}
    /\ ret = NoRet
    /\ self = NoSelf
    /\ sample = <<>>
    /\ sample0 = <<>>
    /\ idx = 0
    /\ calls = <<>>
    /\ pc = "idle"

\* one trial: get_params(order, coefficients_range, probability) returns
CallGetParams ==
    /\ call.fn = "get_params"
    /\ LET r == GetParams(call.order, call.coefficients_range, call.probability, rng)
       IN  /\ ret' = [state |-> "returned",
                      do_augmentation |-> r.do_augmentation,
                      coefficients |-> r.coefficients,
                      draws |-> r.draws]
           /\ rng' = r.rng
    /\ UNCHANGED <<call, self, sample, sample0, idx, calls, pc>>

NextParams == CallGetParams

SpecParams == InitParams /\ [][NextParams]_vars

----------------------------------------------------------------------------
(* Direct calls of the static method generate_bias_field *)

InitField ==
    /\ rng = 0
    /\ \E shape \in Shapes, o \in (0 - 1)..FieldMaxOrder :
         \E len \in CoefLengths(o) :
           \E cs \in CoefVectors(len) :
             call = [fn |-> "generate_bias_field",
                     data |-> Full(<<1>> \o shape, Val(One, Zero)),
                     order |-> o,
                     coefficients |-> cs]
    /\ ret = NoRet
    /\ self = NoSelf
    /\ sample = <<>>
    /\ sample0 = <<>>
    /\ idx = 0
    /\ calls = <<>>
    /\ pc = "idle"

\* generate_bias_field(data, order, coefficients) returns or raises
CallGenerateBiasField ==
    /\ call.fn = "generate_bias_field"
    /\ ret = NoRet
    /\ ret' = GenerateBiasField(call.data, call.order, call.coefficients)
    /\ UNCHANGED <<rng, call, self, sample, sample0, idx, calls, pc>>

NextField == CallGenerateBiasField

SpecField == InitField /\ [][NextField]_vars

----------------------------------------------------------------------------
(* apply_transform *)

INTENSITY == "intensity"
LABEL == "label"
DATA == "data"

\* an entry of the sample is [kind, d]: a dictionary d (kind "dict") or some
\* other value (kind "str", d empty)
IsImageDict(entry) ==
    entry.kind = "dict" /\ {"type", DATA} \subseteq DOMAIN entry.d

\* image_dict['type'] != INTENSITY
NotIntensity(image_dict) == image_dict["type"] # INTENSITY

\* d[key] = value
SetItem(d, key, value) == (key :> value) @@ d

\* RecordParams with the entries set only when the decision is to augment; C6
\* tells the two apart
RecordParamsIfAugmented(image_dict, do_augmentation, coefficients) ==
    IF do_augmentation
    THEN SetItem(SetItem(image_dict, "random_bias_coefficients", coefficients),
                 "random_bias_do_augmentation", do_augmentation)
    ELSE image_dict

\* sample[image_name]['random_bias_coefficients'] = coefficients
\* sample[image_name]['random_bias_do_augmentation'] = do_augmentation
RecordParams(image_dict, do_augmentation, coefficients) ==
    SetItem(SetItem(image_dict, "random_bias_coefficients", coefficients),
            "random_bias_do_augmentation", do_augmentation)

\* SkipAugmentation with the loop never skipping; C7 tells the two apart
SkipAugmentationNever(do_augmentation) == FALSE

\* if not do_augmentation: continue
SkipAugmentation(do_augmentation) == ~do_augmentation

\* image_dict[DATA] * torch.from_numpy(bias_field): the field is broadcast
\* over the channels
MultiplyField(data, bias_field) ==
    [shape |-> data.shape,
     val |-> Stored([ix \in DOMAIN data.val |->
                Times(data.val[ix], bias_field.val[<<ix[2], ix[3], ix[4]>>])])]

\* the body of the loop for an intensity image, with the generator in state
\* g: the image dictionary afterwards, what get_params returned, the
\* generator's state afterwards and the error raised
ProcessImage(image_dict, order, coefficients_range, proportion_to_augment, g) ==
    LET r == GetParams(order, coefficients_range, proportion_to_augment, g)
        recorded == RecordParams(image_dict, r.do_augmentation, r.coefficients)
        f == GenerateBiasField(image_dict[DATA], order, r.coefficients)
    IN  IF SkipAugmentation(r.do_augmentation)
        THEN [image_dict |-> recorded, params |-> r, error |-> "none"]
        ELSE IF f.state = "raised"
        THEN [image_dict |-> recorded, params |-> r, error |-> f.error]
        ELSE [image_dict |-> SetItem(recorded, DATA,
                                     MultiplyField(image_dict[DATA], f.bias_field)),
              params |-> r, error |-> "none"]

\* a 4-D tensor whose voxel values are small integers, zero among them
Pattern(shape) ==
    [shape |-> shape,
     val |-> Stored([ix \in Idx4(shape) |->
                Val(Q((ix[1] + ix[2] + 2 * ix[3] + ix[4]) % 3, 1), Zero)])]

\* the entries a sample is made of
Entries ==
    {[kind |-> "str", d |-> <<>>],
     [kind |-> "dict", d |-> [type |-> LABEL, data |-> Pattern(<<1, 2, 1, 1>>)]]}
    \cup {[kind |-> "dict", d |-> [type |-> INTENSITY, data |-> Pattern(shape)]] :
          shape \in {<<1, 1, 1, 1>>, <<1, 2, 1, 1>>, <<2, 3, 1, 1>>}}

Samples == UNION {[1..n -> Entries] : n \in 0..MaxEntries}

\* the ranges the transform is given: (-n, n)
TransformRanges == {r \in CoefRanges : r[1] = Neg(r[2])}

Init ==
    /\ rng \in 0..(RngMod - 1)
    /\ call = NoCall
    /\ ret = NoRet
    /\ self \in [order : (0 - 1)..TransformMaxOrder,
                 coefficients_range : TransformRanges,
                 proportion_to_augment : Probabilities]
    /\ sample \in Samples
    /\ sample0 = sample
    /\ idx = 1
    /\ calls = [k \in DOMAIN sample |-> <<>>]
    /\ pc = "loop"

\* if not is_image_dict(image_dict): continue
SkipEntry ==
    /\ pc = "loop"
    /\ idx <= Len(sample)
    /\ ~IsImageDict(sample[idx])
    /\ idx' = idx + 1
    /\ UNCHANGED <<rng, call, ret, self, sample, sample0, calls, pc>>

\* if image_dict['type'] != INTENSITY: continue
SkipNonIntensity ==
    /\ pc = "loop"
    /\ idx <= Len(sample)
    /\ IsImageDict(sample[idx])
    /\ NotIntensity(sample[idx].d)
    /\ idx' = idx + 1
    /\ UNCHANGED <<rng, call, ret, self, sample, sample0, calls, pc>>

\* the rest of the loop body: get_params, the two metadata entries and, when
\* the decision is to augment, the multiplication by the field
AugmentImage ==
    /\ pc = "loop"
    /\ idx <= Len(sample)
    /\ IsImageDict(sample[idx])
    /\ ~NotIntensity(sample[idx].d)
    /\ \E p \in {ProcessImage(sample[idx].d, self.order, self.coefficients_range,
                              self.proportion_to_augment, rng)} :
           /\ sample' = [sample EXCEPT ![idx].d = p.image_dict]
           /\ rng' = p.params.rng
           /\ calls' = [calls EXCEPT ![idx] =
                          Append(@, [do_augmentation |-> p.params.do_augmentation,
                                     coefficients |-> p.params.coefficients])]
           /\ IF p.error = "none"
              THEN idx' = idx + 1 /\ pc' = pc
              ELSE idx' = idx /\ pc' = "raised"
    /\ UNCHANGED <<call, ret, self, sample0>>

\* return sample
Return ==
    /\ pc = "loop"
    /\ idx > Len(sample)
    /\ pc' = "done"
    /\ UNCHANGED <<rng, call, ret, self, sample, sample0, idx, calls>>

Next == SkipEntry \/ SkipNonIntensity \/ AugmentImage \/ Return

Spec == Init /\ [][Next]_vars

----------------------------------------------------------------------------
(* Properties of get_params (specification SpecParams) *)

\* the exponent triples of an order: non-negative x, y, z with x + y + z <= order
Triples(order) ==
    {t \in (0..order) \X (0..order) \X (0..order) : t[1] + t[2] + t[3] <= order}

ParamsReturned == call.fn = "get_params" /\ ret.state = "returned"

\* C1: for every order >= 0 the coefficient vector returned by get_params has
\* (order+1)(order+2)(order+3)/6 entries, one per exponent triple of the order.
C1_CoefficientCount ==
    (ParamsReturned /\ call.order >= 0) =>
        /\ Len(ret.coefficients)
             = ((call.order + 1) * (call.order + 2) * (call.order + 3)) \div 6
        /\ Len(ret.coefficients) = Cardinality(Triples(call.order))

C1_Witness ==
    ParamsReturned /\ call.order = 3 /\ Len(ret.coefficients) = 20

\* C5: the decision is true iff the one uniform draw made after the
\* coefficient draws is below the probability; probability 0 gives false and
\* probability 1 gives true in every trial.
C5_ApplyDecision ==
    ParamsReturned =>
        /\ Len(ret.draws) = Len(ret.coefficients) + 1
        /\ ret.do_augmentation
             <=> Less(Rand(ret.draws[Len(ret.draws)]), call.probability)
        /\ call.probability = Zero => ~ret.do_augmentation
        /\ call.probability = One => ret.do_augmentation

C5_Witness ==
    /\ ParamsReturned
    /\ call.probability = Zero
    /\ ~ret.do_augmentation
    /\ Rand(ret.draws[Len(ret.draws)]) = Zero
    /\ Len(ret.coefficients) > 1
    /\ ret.coefficients[1] # ret.coefficients[2]

\* C8: get_params called with order < 0 fails; it never returns a pair.
C8_NegativeOrderRejected ==
    (call.fn = "get_params" /\ call.order < 0) => ret.state # "returned"

----------------------------------------------------------------------------
(* Properties of generate_bias_field (specification SpecField) *)

FieldCalled == call.fn = "generate_bias_field" /\ ret.state # "none"
FieldReturned == call.fn = "generate_bias_field" /\ ret.state = "returned"

\* the spatial shape of the data given to generate_bias_field
CallShape == SubSeq(call.data.shape, 2, 4)

\* the coefficient vector has one entry per exponent triple of the order
LengthMatches == Len(call.coefficients) = Cardinality(Triples(call.order))

\* C2: generate_bias_field fails whenever the length of the coefficient vector
\* differs from the number of exponent triples of the order, too short or too
\* long; it never returns a field then.
C2_MismatchRejected ==
    (FieldCalled /\ call.order >= 0 /\ ~LengthMatches) => ret.state = "raised"

\* C3: for every shape and order, every element of the returned field is a
\* well-defined value greater than 0, and the accumulator is finite at every
\* voxel.
C3_FieldPositive ==
    (FieldReturned /\ LengthMatches /\ call.order >= 0) =>
        \A ix \in Idx3(CallShape) :
            /\ IsFinite(ret.accumulator.val[ix])
            /\ IsFinite(ret.bias_field.val[ix].m)
            /\ ret.bias_field.val[ix].m.n > 0

\* C4: with all coefficients 0 the accumulator is 0 and the field is 1 at
\* every voxel.
C4_ZeroCoefficientsIdentity ==
    (/\ FieldReturned /\ LengthMatches /\ call.order >= 0
     /\ \A i \in DOMAIN call.coefficients : call.coefficients[i] = Zero) =>
        \A ix \in Idx3(CallShape) :
            /\ ret.accumulator.val[ix] = Zero
            /\ ret.bias_field.val[ix] = Val(One, Zero)

\* the largest absolute value of an array of numbers, nan if one is nan
MaxMagnitude(a) ==
    LET vs == {a.val[ix] : ix \in DOMAIN a.val}
        mag(v) == IF IsFinite(v) THEN Q(Abs(v.n), v.d) ELSE [n |-> Abs(v.n), d |-> 0]
    IN  IF \E v \in vs : IsNaN(v) THEN NaN
        ELSE IF \E v \in vs : ~IsFinite(v) THEN PosInf
        ELSE CHOOSE m \in {mag(v) : v \in vs} : \A v \in vs : ~Less(m, mag(v))

\* C9: the coordinate range of an axis of length n has n entries, and after
\* the division by its maximum the largest absolute value along the axis is 1.
C9_UnitMagnitude ==
    (FieldReturned /\ LengthMatches /\ call.order >= 0) =>
        \A k \in 1..3 :
            /\ Len(AxisRanges(CallShape)[k]) = CallShape[k]
            /\ MaxMagnitude(NormalizedMeshes(CallShape)[k]) = One

\* the coordinates of an axis of length n, divided by their maximum
NormalizedAxis(n) ==
    LET r == Arange(Neg(Q(n, 2)), Q(n, 2))
        m == CHOOSE v \in {r[k] : k \in DOMAIN r} :
                 \A w \in {r[k] : k \in DOMAIN r} : ~Less(v, w)
    IN  [k \in DOMAIN r |-> Div(r[k], m)]

\* the sum of coefficients[i] * X^x_i * Y^y_i * Z^z_i over the first k
\* exponent triples of get_params' enumeration
RECURSIVE PolynomialSum(_, _, _, _, _, _)
PolynomialSum(k, triples, coefficients, X, Y, Z) ==
    IF k = 0 THEN Zero
    ELSE Add(PolynomialSum(k - 1, triples, coefficients, X, Y, Z),
             Mul(Mul(Mul(coefficients[k], Pow(X, triples[k][1])),
                     Pow(Y, triples[k][2])),
                 Pow(Z, triples[k][3])))

\* C10: the accumulator has the shape (D1, D2, D3) of the image, and at voxel
\* (a, b, c) it is the sum over i of coefficients[i] * X[a]^x_i * Y[b]^y_i *
\* Z[c]^z_i with the triples in get_params' order and X, Y, Z the normalized
\* coordinates of the image's axes 1, 2, 3; the final i is the coefficient
\* count.
C10_FieldFormula ==
    (FieldReturned /\ LengthMatches) =>
        LET triples == ParamsExponents(call.order)
            X == NormalizedAxis(CallShape[1])
            Y == NormalizedAxis(CallShape[2])
            Z == NormalizedAxis(CallShape[3])
        IN  /\ ret.accumulator.shape = CallShape
            /\ ret.bias_field.shape = CallShape
            /\ DOMAIN ret.accumulator.val = Idx3(CallShape)
            /\ ret.i = Len(call.coefficients)
            /\ \A ix \in Idx3(CallShape) :
                   ret.accumulator.val[ix]
                     = PolynomialSum(Len(triples), triples, call.coefficients,
                                     X[ix[1] + 1], Y[ix[2] + 1], Z[ix[3] + 1])

C10_Witness ==
    /\ FieldReturned
    /\ LengthMatches
    /\ call.order = 2
    /\ CallShape = <<3, 1, 1>>
    /\ call.coefficients[1] # call.coefficients[2]
    /\ ret.accumulator.val[<<0, 0, 0>>] # ret.accumulator.val[<<2, 0, 0>>]
    /\ \A ix \in Idx3(CallShape) : IsFinite(ret.accumulator.val[ix])

----------------------------------------------------------------------------
(* Properties of apply_transform (specification Spec) *)

IsIntensityImage(entry) == IsImageDict(entry) /\ entry.d["type"] = INTENSITY

\* C6: when apply_transform has returned, every intensity image carries the
\* coefficient vector and the decision of the one get_params call made for
\* it, whatever the decision was.
C6_MetadataRecorded ==
    pc = "done" =>
        \A k \in DOMAIN sample :
            IsIntensityImage(sample0[k]) =>
                /\ {"random_bias_coefficients", "random_bias_do_augmentation"}
                     \subseteq DOMAIN sample[k].d
                /\ Len(calls[k]) = 1
                /\ sample[k].d["random_bias_coefficients"] = calls[k][1].coefficients
                /\ sample[k].d["random_bias_do_augmentation"]
                     = calls[k][1].do_augmentation

C6_Witness ==
    /\ pc = "done"
    /\ Len(sample) = 2
    /\ \A k \in DOMAIN sample : IsIntensityImage(sample0[k])
    /\ ~sample[1].d["random_bias_do_augmentation"]
    /\ sample[2].d["random_bias_do_augmentation"]
    /\ sample[1].d["random_bias_coefficients"] # sample[2].d["random_bias_coefficients"]

\* C7: the data of a non-intensity image and of an intensity image whose
\* decision is false is what it was before the call; data is replaced, by
\* data times field, only for an intensity image whose decision is true; the
\* other entries of the sample are untouched.
C7_Frame ==
    /\ DOMAIN sample = DOMAIN sample0
    /\ \A k \in DOMAIN sample :
        LET e == sample[k]
            e0 == sample0[k]
        IN  IF ~IsIntensityImage(e0) THEN e = e0
            ELSE IF "random_bias_do_augmentation" \notin DOMAIN e.d THEN e = e0
            ELSE IF ~e.d["random_bias_do_augmentation"]
            THEN e.d[DATA] = e0.d[DATA]
            ELSE e.d[DATA]
                   = MultiplyField(e0.d[DATA],
                        GenerateBiasField(e0.d[DATA], self.order,
                            e.d["random_bias_coefficients"]).bias_field)

C7_Witness ==
    /\ pc = "done"
    /\ Len(sample) = 2
    /\ \A k \in DOMAIN sample : IsIntensityImage(sample0[k])
    /\ ~sample[1].d["random_bias_do_augmentation"]
    /\ sample[1].d[DATA] = sample0[1].d[DATA]
    /\ \E ix \in DOMAIN sample[1].d["random_bias_coefficients"] :
           sample[1].d["random_bias_coefficients"][ix] # Zero
    /\ sample[2].d["random_bias_do_augmentation"]
    /\ sample[2].d[DATA] # sample0[2].d[DATA]

====
